---- MODULE Spec2Model ----
(***************************************************************************)
(* Byte-plane splitting + zstd container of src/src/compressor.py:         *)
(* compress_file writes a sequence of blocks                               *)
(*   [original_len:u32-LE][compressed_len:u32-LE][payload]                 *)
(* and decompress_file reads them back.  Files are sequences of bytes      *)
(* (0..255); a read position is the number of bytes already consumed.      *)
(***************************************************************************)
EXTENDS Integers, Sequences, FiniteSets, TLC

\* ----------------------------------------------------------------- bounds
InputBytes == {7, 200}      \* byte values the input file is drawn from
MaxLen == 4                 \* longest input file
MaxChunk == 3               \* largest chunk_size
MaxOrig == 4                \* largest original_len of a hand-made header
MaxData == 3                \* longest payload content of a hand-made block

\* -------------------------------------------------------------- constants
HeaderSize == 8             \* f_in.read(8), struct '<II'

Min(a, b) == IF a < b THEN a ELSE b

\* all byte sequences over S of length 0..n
SeqsUpTo(S, n) == UNION {[1..k -> S] : k \in 0..n}

\* ------------------------------------------------------- python primitives
\* f.read(n) at position pos: up to n bytes, fewer at end of file
ReadBytes(f, pos, n) ==
    SubSeq(f, pos + 1, IF n >= Len(f) - pos THEN Len(f) ELSE pos + n)

\* `if not chunk` / `if not header`: an empty bytes object is falsy
Falsy(b) == Len(b) = 0

\* b[lo:hi] for 0 <= lo <= hi (python clamps both ends to len(b))
PySlice(b, lo, hi) == SubSeq(b, Min(lo, Len(b)) + 1, Min(hi, Len(b)))

\* b[-1:] : the last byte, or empty for an empty buffer
PyLast(b) == IF Len(b) = 0 THEN << >> ELSE << b[Len(b)] >>

\* arr[start::2] for start in {0,1}
\* faulty variant: the slice starts one element late
StrideOff(arr, start) ==
    [i \in 1..((Len(arr) - start) \div 2) |-> arr[start + 2 * i]]
Stride(arr, start) ==
    [i \in 1..((Len(arr) - start + 1) \div 2) |-> arr[start + 2 * i - 1]]

\* struct.pack('<I', n): four bytes, least significant first
PackU32(n) ==
    << n % 256, (n \div 256) % 256, (n \div 65536) % 256,
       (n \div 16777216) % 256 >>

\* struct.unpack('<I', b) of four bytes.  Values from 2^31 on are held at
\* 2^31 - 1: both exceed every file and buffer length here, so the reads and
\* slices they bound return the same bytes.
UnpackU32(b) ==
    IF b[4] >= 128 THEN 2147483647
    ELSE b[1] + 256 * b[2] + 65536 * b[3] + 16777216 * b[4]

\* struct.pack('<II', original_len, compressed_len)
\* faulty variant: the two header fields in the wrong order
PackHeaderSwapped(original_len, compressed_len) ==
    PackU32(compressed_len) \o PackU32(original_len)
PackHeader(original_len, compressed_len) ==
    PackU32(original_len) \o PackU32(compressed_len)

\* ------------------------------------------------------- byte-plane split
\* lines 30-43: [even bytes][odd bytes][leftover byte if the length is odd]
\* faulty variant: the unpaired last byte is dropped
SplitDropLast(chunk) ==
    LET data_even == IF Len(chunk) % 2 # 0
                     THEN SubSeq(chunk, 1, Len(chunk) - 1) ELSE chunk
    IN  Stride(data_even, 0) \o Stride(data_even, 1)
Split(chunk) ==
    LET odd       == Len(chunk) % 2 # 0
        data_even == IF odd THEN SubSeq(chunk, 1, Len(chunk) - 1) ELSE chunk
        last_byte == IF odd THEN PyLast(chunk) ELSE << >>
    IN  Stride(data_even, 0) \o Stride(data_even, 1) \o last_byte

\* ------------------------------------------------------------ zstd backend
\* A zstd frame holding x in one raw block, as zstd emits for tiny inputs:
\* magic 28 B5 2F FD, frame header descriptor 20 (single segment, 1-byte
\* content size), content size, 3-byte block header (last, raw, size), data.
ZMagic == << 40, 181, 47, 253, 32 >>
ZBlockHeader(n) ==
    << (8 * n + 1) % 256, ((8 * n + 1) \div 256) % 256,
       ((8 * n + 1) \div 65536) % 256 >>
Compress(x) == ZMagic \o << Len(x) >> \o ZBlockHeader(Len(x)) \o x

\* length of the frame that starts p, or 0 if p does not start with one
FrameLen(p) ==
    IF Len(p) >= 9 /\ SubSeq(p, 1, 5) = ZMagic
       /\ SubSeq(p, 7, 9) = ZBlockHeader(p[6]) /\ Len(p) >= 9 + p[6]
    THEN 9 + p[6] ELSE 0

\* dctx.decompress(p): the content of a complete frame; ZstdError for
\* anything that is not one.  Bytes after a complete frame are ignored by
\* some releases of the binding and rejected by others.
\* faulty variant: an incomplete frame yields the bytes it still holds
DecompressLenient(p) ==
    IF Len(p) >= 6 /\ SubSeq(p, 1, 5) = ZMagic
    THEN {[ok |-> TRUE, data |-> SubSeq(p, 10, Min(Len(p), 9 + p[6]))]}
    ELSE {[ok |-> FALSE, data |-> << >>]}
Decompress(p) ==
    LET n == FrameLen(p) IN
    IF n = 0 THEN {[ok |-> FALSE, data |-> << >>]}
    ELSE IF n = Len(p) THEN {[ok |-> TRUE, data |-> SubSeq(p, 10, n)]}
    ELSE {[ok |-> TRUE, data |-> SubSeq(p, 10, n)],
          [ok |-> FALSE, data |-> << >>]}

\* ------------------------------------------------------------ block encode
\* lines 25-53: header then payload of one chunk
EncodeBlock(chunk) ==
    LET compressed_data == Compress(Split(chunk))
    IN  PackHeader(Len(chunk), Len(compressed_data)) \o compressed_data

\* ------------------------------------------------------------ block decode
\* numpy `dst[a::2] = src` with dst holding n slots: src must have n
\* elements, or exactly one (which is broadcast to every slot)
CanAssign(n, k) == k = n \/ k = 1
Bcast(src, j) == IF Len(src) = 1 THEN src[1] ELSE src[j]

\* lines 95-97: reconstructed[0::2] = bytes_even; reconstructed[1::2] = bytes_odd
\* faulty variant: the two planes interleaved the wrong way round
ReconstructSwapped(bytes_even, bytes_odd, split_len) ==
    [i \in 1..(2 * split_len) |->
        IF i % 2 = 1 THEN Bcast(bytes_odd, (i + 1) \div 2)
                     ELSE Bcast(bytes_even, i \div 2)]
Reconstruct(bytes_even, bytes_odd, split_len) ==
    [i \in 1..(2 * split_len) |->
        IF i % 2 = 1 THEN Bcast(bytes_even, (i + 1) \div 2)
                     ELSE Bcast(bytes_odd, i \div 2)]

\* lines 88-103: what one block writes for a header original_len and the
\* decompressed buffer, or ValueError when an interleave assignment fails
Unsplit(transformed_data, original_len) ==
    LET split_len  == original_len \div 2
        bytes_even == PySlice(transformed_data, 0, split_len)
        bytes_odd  == PySlice(transformed_data, split_len, split_len * 2)
    IN  IF ~CanAssign(split_len, Len(bytes_even))
           \/ ~CanAssign(split_len, Len(bytes_odd))
        THEN [err |-> "ValueError", written |-> << >>]
        ELSE [err |-> "none",
              written |-> Reconstruct(bytes_even, bytes_odd, split_len)
                          \o (IF original_len % 2 # 0
                              THEN PyLast(transformed_data) ELSE << >>)]

\* lines 73-77: what the loop does with the bytes read for a header
\* faulty variant: a short header ends the loop like an empty one
HeaderStatusShortIsEof(header) ==
    IF Len(header) < HeaderSize THEN "eof" ELSE "ok"
\* faulty variant: an empty read is unpacked like a short one
HeaderStatusEmptyRaises(header) ==
    IF Len(header) # HeaderSize THEN "struct.error" ELSE "ok"
HeaderStatus(header) ==
    IF Falsy(header) THEN "eof"
    ELSE IF Len(header) # HeaderSize THEN "struct.error"
    ELSE "ok"

\* lines 73-103: the outcomes of one loop iteration of decompress_file on
\* file f at position pos (a header is present: HeaderStatus is not "eof")
DecodeStep(f, pos) ==
    LET header == ReadBytes(f, pos, HeaderSize) IN
    IF HeaderStatus(header) = "struct.error"
    THEN {[err |-> "struct.error", original_len |-> 0, compressed_len |-> 0,
           got |-> 0, written |-> << >>, pos |-> pos + Len(header)]}
    ELSE
      LET original_len    == UnpackU32(SubSeq(header, 1, 4))
          compressed_len  == UnpackU32(SubSeq(header, 5, 8))
          compressed_data == ReadBytes(f, pos + HeaderSize, compressed_len)
          after           == pos + HeaderSize + Len(compressed_data)
      IN  { IF ~d.ok
            THEN [err |-> "ZstdError", original_len |-> original_len,
                  compressed_len |-> compressed_len,
                  got |-> Len(compressed_data), written |-> << >>,
                  pos |-> after]
            ELSE [err |-> Unsplit(d.data, original_len).err,
                  original_len |-> original_len,
                  compressed_len |-> compressed_len,
                  got |-> Len(compressed_data),
                  written |-> Unsplit(d.data, original_len).written,
                  pos |-> after]
            : d \in Decompress(compressed_data) }

\* ------------------------------------------------------------------- state
VARIABLES
    input,            \* bytes of the file compress_file reads
    chunk_size,       \* its chunk_size argument
    in_pos,           \* read position of f_in in compress_file
    comp_file,        \* bytes compress_file has written to f_out
    total_original,   \* compress_file's counters
    total_compressed,
    cpc,              \* "loop" | "done" | "failed" | "interrupted" | "off"
    cerr,             \* exception compress_file ended with, or "none"
    chunks,           \* history: the chunks read, in order
    planars,          \* history: transformed_data handed to cctx.compress
    dec_in,           \* bytes of the file decompress_file reads
    dpos,             \* read position of f_in in decompress_file
    dec_out,          \* bytes decompress_file has written to f_out
    dpc,              \* "idle" | "loop" | "done" | "failed"
    derr,             \* exception decompress_file ended with, or "none"
    dec_log,          \* history: one record per loop iteration of the decoder
    cut               \* bytes removed from the end of comp_file before decoding

cvars == << input, chunk_size, in_pos, comp_file, total_original,
            total_compressed, cpc, cerr, chunks, planars >>
dvars == << dec_in, dpos, dec_out, dpc, derr, dec_log, cut >>
vars == << input, chunk_size, in_pos, comp_file, total_original,
           total_compressed, cpc, cerr, chunks, planars,
           dec_in, dpos, dec_out, dpc, derr, dec_log, cut >>

\* ---------------------------------------------------------- compress_file
\* line 59: total_original / total_compressed
SummaryRaises(compressed) == compressed = 0

Init ==
    /\ input \in SeqsUpTo(InputBytes, MaxLen)
    /\ chunk_size \in 1..MaxChunk
    /\ in_pos = 0
    /\ comp_file = << >>
    /\ total_original = 0
    /\ total_compressed = 0
    /\ cpc = "loop"
    /\ cerr = "none"
    /\ chunks = << >>
    /\ planars = << >>
    /\ dec_in = << >>
    /\ dpos = 0
    /\ dec_out = << >>
    /\ dpc = "idle"
    /\ derr = "none"
    /\ dec_log = << >>
    /\ cut = 0

\* lines 21-53: one iteration that reads a non-empty chunk and writes a block
CompressBlock ==
    /\ cpc = "loop"
    /\ LET chunk == ReadBytes(input, in_pos, chunk_size) IN
       /\ ~Falsy(chunk)
       /\ in_pos' = in_pos + Len(chunk)
       /\ total_original' = total_original + Len(chunk)
       /\ total_compressed' = total_compressed + Len(Compress(Split(chunk)))
       /\ comp_file' = comp_file \o EncodeBlock(chunk)
       /\ chunks' = Append(chunks, chunk)
       /\ planars' = Append(planars, Split(chunk))
    /\ UNCHANGED << input, chunk_size, cpc, cerr >>
    /\ UNCHANGED dvars

\* lines 21-23, 55-60: the read returns nothing, the loop ends, the files
\* are closed and the summary is printed
CompressFinish ==
    /\ cpc = "loop"
    /\ Falsy(ReadBytes(input, in_pos, chunk_size))
    /\ IF SummaryRaises(total_compressed)
       THEN cpc' = "failed" /\ cerr' = "ZeroDivisionError"
       ELSE cpc' = "done" /\ cerr' = "none"
    /\ UNCHANGED << input, chunk_size, in_pos, comp_file, total_original,
                    total_compressed, chunks, planars >>
    /\ UNCHANGED dvars

\* line 19-20: compress_file is stopped between two iterations; the with
\* statement closes f_out with every block written so far
Interrupt ==
    /\ cpc = "loop"
    /\ cpc' = "interrupted"
    /\ cerr' = "KeyboardInterrupt"
    /\ UNCHANGED << input, chunk_size, in_pos, comp_file, total_original,
                    total_compressed, chunks, planars >>
    /\ UNCHANGED dvars

\* -------------------------------------------------------- decompress_file
\* line 70: decompress_file opens what compress_file left on disk
OpenCompressed ==
    /\ dpc = "idle"
    /\ cpc \in {"done", "failed", "interrupted"}
    /\ dec_in' = comp_file
    /\ dpc' = "loop"
    /\ UNCHANGED << dpos, dec_out, derr, dec_log, cut >>
    /\ UNCHANGED cvars

\* line 70: it opens a complete stream whose last k bytes were removed
OpenTruncated ==
    /\ dpc = "idle"
    /\ cpc = "done"
    /\ \E k \in 1..(HeaderSize - 1) :
        /\ k <= Len(comp_file)
        /\ dec_in' = SubSeq(comp_file, 1, Len(comp_file) - k)
        /\ cut' = k
    /\ dpc' = "loop"
    /\ UNCHANGED << dpos, dec_out, derr, dec_log >>
    /\ UNCHANGED cvars

\* lines 73-103: one iteration that finds header bytes
DecodeBlock ==
    /\ dpc = "loop"
    /\ HeaderStatus(ReadBytes(dec_in, dpos, HeaderSize)) # "eof"
    /\ \E r \in DecodeStep(dec_in, dpos) :
        /\ dpos' = r.pos
        /\ dec_out' = dec_out \o r.written
        /\ dec_log' = Append(dec_log, r)
        /\ derr' = r.err
        /\ dpc' = IF r.err = "none" THEN "loop" ELSE "failed"
    /\ UNCHANGED << dec_in, cut >>
    /\ UNCHANGED cvars

\* lines 73-75, 105-106: no header bytes are left, the loop ends
DecodeFinish ==
    /\ dpc = "loop"
    /\ HeaderStatus(ReadBytes(dec_in, dpos, HeaderSize)) = "eof"
    /\ dpc' = "done"
    /\ UNCHANGED << dec_in, dpos, dec_out, derr, dec_log, cut >>
    /\ UNCHANGED cvars

Next ==
    \/ CompressBlock
    \/ CompressFinish
    \/ Interrupt
    \/ OpenCompressed
    \/ OpenTruncated
    \/ DecodeBlock
    \/ DecodeFinish

Spec == Init /\ [][Next]_vars

\* ------------------------------------------- decompress_file on any stream
\* A first block with any header fields around a zstd frame (complete, or
\* with its last byte missing; compressed_len exact, or two too large),
\* followed by nothing, by the first h bytes of a well-formed block, or by
\* a whole well-formed block.
HandBlock(o, x, t, dc) ==
    LET p == SubSeq(Compress(x), 1, Len(Compress(x)) - t)
    IN  PackHeader(o, Len(p) + dc) \o p

Tails ==
    UNION { {SubSeq(EncodeBlock(y), 1, h) : h \in 0..HeaderSize}
            \cup {EncodeBlock(y)} : y \in SeqsUpTo(InputBytes, 1) }

Streams ==
    { HandBlock(o, x, t, dc) \o tl :
        o \in 0..MaxOrig, x \in SeqsUpTo(InputBytes, MaxData),
        t \in {0, 1}, dc \in {0, 2}, tl \in Tails }

InitDec ==
    /\ dec_in \in Streams
    /\ dpos = 0
    /\ dec_out = << >>
    /\ dpc = "loop"
    /\ derr = "none"
    /\ dec_log = << >>
    /\ cut = 0
    /\ input = << >>
    /\ chunk_size = 1
    /\ in_pos = 0
    /\ comp_file = << >>
    /\ total_original = 0
    /\ total_compressed = 0
    /\ cpc = "off"
    /\ cerr = "none"
    /\ chunks = << >>
    /\ planars = << >>

NextDec ==
    \/ DecodeBlock
    \/ DecodeFinish

SpecDec == InitDec /\ [][NextDec]_vars

\* ================================================================== claims
\* the blocks of stream f from position pos on, read by their headers:
\* ok is FALSE when bytes are left over that are not a complete block
RECURSIVE ParseFrom(_, _)
ParseFrom(f, pos) ==
    IF pos = Len(f) THEN [ok |-> TRUE, blocks |-> << >>]
    ELSE IF Len(f) - pos < HeaderSize THEN [ok |-> FALSE, blocks |-> << >>]
    ELSE
      LET o == UnpackU32(SubSeq(f, pos + 1, pos + 4))
          c == UnpackU32(SubSeq(f, pos + 5, pos + 8))
      IN  IF c > Len(f) - pos - HeaderSize
          THEN [ok |-> FALSE, blocks |-> << >>]
          ELSE LET rest == ParseFrom(f, pos + HeaderSize + c)
               IN  [ok |-> rest.ok,
                    blocks |->
                      << [original_len |-> o, compressed_len |-> c,
                          payload |-> SubSeq(f, pos + HeaderSize + 1,
                                             pos + HeaderSize + c),
                          bytes |-> SubSeq(f, pos + 1, pos + HeaderSize + c)]
                      >> \o rest.blocks]

RECURSIVE Flatten(_)
Flatten(ss) == IF Len(ss) = 0 THEN << >> ELSE Head(ss) \o Flatten(Tail(ss))

\* the planar layout of section 4.1, by index: with m the largest even
\* length <= n, position i holds chunk[2i-1] for i <= m/2, chunk[2(i-m/2)]
\* for m/2 < i <= m, and chunk[n] at i = n when n is odd (1-based)
PlanarOf(chunk) ==
    LET n == Len(chunk)
        m == n - (n % 2)
    IN  [i \in 1..n |->
            IF i <= m \div 2 THEN chunk[2 * i - 1]
            ELSE IF i <= m THEN chunk[2 * (i - m \div 2)]
            ELSE chunk[n]]

\* C1: compress_file followed by decompress_file on its complete output
\* never fails and, once finished, has written exactly the input bytes (same
\* bytes, same total length), for every input length and chunk_size.
C1_RoundTrip ==
    (cpc \in {"done", "failed"} /\ cut = 0)
        => /\ dpc # "failed"
           /\ dpc = "done" => (dec_out = input /\ Len(dec_out) = Len(input))

C1_Witness ==
    /\ cpc = "done" /\ cut = 0 /\ dpc = "done"
    /\ Len(chunks) = 2 /\ Len(input) = 3 /\ input[1] # input[3]

C3_BlockHeaders ==
    LET ps == ParseFrom(comp_file, 0) IN
    /\ ps.ok
    /\ Len(ps.blocks) = Len(chunks)
    /\ \A i \in 1..Len(ps.blocks) :
        /\ ps.blocks[i].original_len = Len(chunks[i])
        /\ ps.blocks[i].compressed_len = Len(Compress(planars[i]))
        /\ ps.blocks[i].payload = Compress(planars[i])

C3_Witness ==
    /\ Len(chunks) = 2
    /\ Len(chunks[1]) # Len(chunks[2])

\* C4: where a header is expected, zero remaining bytes end the decoder
\* cleanly; one to seven remaining bytes make it fail with the header's
\* unpack error, and it writes nothing then or afterwards.
C4_HeaderOutcome ==
    [][ /\ (dpc = "loop" /\ Len(dec_in) - dpos = 0)
            => (dpc' = "done" /\ derr' = "none" /\ dec_out' = dec_out)
        /\ (dpc = "loop" /\ Len(dec_in) - dpos \in 1..(HeaderSize - 1))
            => (dpc' = "failed" /\ derr' = "struct.error"
                /\ dec_out' = dec_out)
        /\ dpc = "failed" => (dpc' = "failed" /\ dec_out' = dec_out) ]_vars

C4_Witness ==
    /\ dpc = "failed" /\ derr = "struct.error"
    /\ Len(dec_log) = 2 /\ Len(dec_out) > 0

\* C5: a block whose header declares more payload bytes than the input
\* still holds is never accepted: its iteration ends in an error.
C5_ShortPayloadRejected ==
    \A i \in 1..Len(dec_log) :
        (dec_log[i].err # "struct.error"
         /\ dec_log[i].got < dec_log[i].compressed_len)
            => dec_log[i].err # "none"

\* C6: a block the decoder completes has written exactly the number of
\* bytes its header gives as original_len.
C6_LengthChecked ==
    \A i \in 1..Len(dec_log) :
        dec_log[i].err = "none"
            => Len(dec_log[i].written) = dec_log[i].original_len

C8_EmptyInput ==
    Len(input) = 0 =>
        /\ comp_file = << >> /\ chunks = << >>
        /\ dec_in = << >> /\ dec_out = << >> /\ dec_log = << >>
        /\ dpc # "failed"

C8_Witness ==
    Len(input) = 0 /\ cpc # "loop" /\ dpc = "done"

\* C9: once the last block is processed, compress_file ends by printing its
\* summary, not by raising, for every input including the empty one.
C9_SummaryNotException ==
    cpc \in {"done", "failed"} => cerr = "none"

\* C10: stopped between two iterations, compress_file leaves a stream of
\* exactly as many blocks as chunks were read; each block decodes from its
\* own bytes alone to its chunk, and decompress_file on the stream writes
\* those chunks in order, which are the input read so far.
C10_ValidPrefix ==
    cpc = "interrupted" =>
        LET ps == ParseFrom(comp_file, 0) IN
        /\ ps.ok
        /\ Len(ps.blocks) = Len(chunks)
        /\ \A i \in 1..Len(ps.blocks) :
            \A r \in DecodeStep(ps.blocks[i].bytes, 0) :
                /\ r.err = "none"
                /\ r.written = chunks[i]
                /\ r.pos = Len(ps.blocks[i].bytes)
        /\ dpc # "failed"
        /\ dpc = "done" =>
            /\ Len(dec_log) = Len(chunks)
            /\ \A i \in 1..Len(dec_log) : dec_log[i].written = chunks[i]
            /\ dec_out = SubSeq(input, 1, in_pos)

C10_Witness ==
    /\ cpc = "interrupted" /\ dpc = "done"
    /\ Len(chunks) = 2 /\ in_pos < Len(input)

====
